---- MODULE Spec2Model ----
(***************************************************************************)
(* A model of figma_api.py: the Flask service that turns a Figma URL into  *)
(* rendered frame images stored under a session folder, and serves them.   *)
(*                                                                         *)
(* Strings the code inspects character by character (the URL, a node id, a *)
(* file name) are sequences of one-character strings; strings the code     *)
(* only passes around (a session id, a message) are plain strings.  A      *)
(* Python dict is a function, `k in d` is k \in DOMAIN d, and None is the  *)
(* value None.                                                             *)
(***************************************************************************)
EXTENDS Integers, Sequences, FiniteSets, TLC

\* ------------------------------------------------------------------ bounds
MaxPages == 2
MaxChildren == 2
MaxIds == 250
MaxFrames == 2

\* --------------------------------------------------------- program constants
max_ids_per_request == 100

UPLOAD_FOLDER == "/app/uploads"

\* ------------------------------------------------------------ Python helpers
\* None: a value apart from every character sequence (no character is "None")
None == <<"None">>

\* {}
EmptyDict == <<>>

\* d.get(k, default)
Get(d, k, default) == IF k \in DOMAIN d THEN d[k] ELSE default

\* d.update(e): the entries of e replace those of d
DictUpdate(d, e) ==
    [k \in DOMAIN d \cup DOMAIN e |-> IF k \in DOMAIN e THEN e[k] ELSE d[k]]

\* d[k] = v
DictSet(d, k, v) == [x \in DOMAIN d \cup {k} |-> IF x = k THEN v ELSE d[x]]

\* Python truthiness of the values the code tests: None and '' are false
Truthy(v) == v # None /\ v # <<>>

Min(a, b) == IF a < b THEN a ELSE b

\* ------------------------------------------------------------- characters
Digits == {"0", "1", "2", "3", "4", "5", "6", "7", "8", "9"}

Letters ==
    {"a", "b", "c", "d", "e", "f", "g", "h", "i", "j", "k", "l", "m",
     "n", "o", "p", "q", "r", "s", "t", "u", "v", "w", "x", "y", "z",
     "A", "B", "C", "D", "E", "F", "G", "H", "I", "J", "K", "L", "M",
     "N", "O", "P", "Q", "R", "S", "T", "U", "V", "W", "X", "Y", "Z"}

\* the regex class [a-zA-Z0-9_-]
KeyChars == Letters \cup Digits \cup {"_", "-"}

\* the regex class [\w\-_.]
SafeChars == Letters \cup Digits \cup {"_", "-", "."}

\* ------------------------------------------------------- extract_file_key
LitFigma == <<"f", "i", "g", "m", "a", ".", "c", "o", "m", "/">>
LitFile == <<"f", "i", "l", "e", "/">>
LitDesign == <<"d", "e", "s", "i", "g", "n", "/">>
LitBoard == <<"b", "o", "a", "r", "d", "/">>

\* the literal lit stands in s at position i
LitAt(s, i, lit) ==
    /\ i + Len(lit) - 1 <= Len(s)
    /\ \A k \in 1..Len(lit) : s[i + k - 1] = lit[k]

\* the greedy group ([a-zA-Z0-9_-]+) from position i: the longest run
KeyRun(s, i) ==
    LET stop == {k \in i..Len(s) + 1 :
                    k = Len(s) + 1 \/ s[k] \notin KeyChars}
        e == CHOOSE k \in stop : \A j \in stop : k <= j
    IN  SubSeq(s, i, e - 1)

\* the pattern figma\.com/(?:kind1|kind2|...)/([a-zA-Z0-9_-]+) matches at i
MatchAt(s, i, kinds) ==
    /\ LitAt(s, i, LitFigma)
    /\ \E kd \in kinds :
          /\ LitAt(s, i + Len(LitFigma), kd)
          /\ KeyRun(s, i + Len(LitFigma) + Len(kd)) # <<>>

\* re.search(pattern, s).group(1), or None: the leftmost match
Search(s, kinds) ==
    LET hits == {i \in 1..Len(s) : MatchAt(s, i, kinds)}
    IN  IF hits = {} THEN None
        ELSE LET i == CHOOSE h \in hits : \A j \in hits : h <= j
                 kd == CHOOSE k \in kinds : LitAt(s, i + Len(LitFigma), k)
             IN  KeyRun(s, i + Len(LitFigma) + Len(kd))

\* [ok, value] on return, [ok = FALSE, error] on raise
Return(v) == [ok |-> TRUE, value |-> v]
Raise(msg) == [ok |-> FALSE, error |-> msg]

extract_file_key(figma_url) ==
    LET match == Search(figma_url, {LitFile, LitDesign})
    IN  IF match # None THEN Return(match)
        ELSE LET board_match == Search(figma_url, {LitBoard})
             IN  IF board_match # None THEN Return(board_match)
                 ELSE Raise("Invalid Figma URL")

\* ---------------------------------------------------------- extract_frames
\* FrameStep without the test of the type: every child counts as a frame
FrameStepAnyType(acc, frame) ==
    LET frame_data == [name |-> Get(frame, "name", "Unnamed Frame"),
                       node_id |-> Get(frame, "id", <<>>),
                       type |-> "FRAME"]
    IN  [frames |-> Append(acc.frames, frame_data),
         frame_ids |-> IF Truthy(Get(frame, "id", None))
                       THEN Append(acc.frame_ids, frame["id"])
                       ELSE acc.frame_ids]

\* the body of the inner loop for one child of a page
FrameStep(acc, frame) ==
    IF ~("type" \in DOMAIN frame /\ frame["type"] = "FRAME") THEN acc
    ELSE LET frame_data == [name |-> Get(frame, "name", "Unnamed Frame"),
                            node_id |-> Get(frame, "id", <<>>),
                            type |-> "FRAME"]
         IN  [frames |-> Append(acc.frames, frame_data),
              frame_ids |-> IF Truthy(Get(frame, "id", None))
                            THEN Append(acc.frame_ids, frame["id"])
                            ELSE acc.frame_ids]

RECURSIVE ChildLoop(_, _, _)
ChildLoop(acc, children, k) ==
    IF k > Len(children) THEN acc
    ELSE ChildLoop(FrameStep(acc, children[k]), children, k + 1)

RECURSIVE PageLoop(_, _, _)
PageLoop(acc, pages, p) ==
    IF p > Len(pages) THEN acc
    ELSE PageLoop(ChildLoop(acc, Get(pages[p], "children", <<>>), 1), pages, p + 1)

extract_frames(file_data) ==
    LET document == Get(file_data, "document", EmptyDict)
        pages == Get(document, "children", <<>>)
    IN  PageLoop([frames |-> <<>>, frame_ids |-> <<>>], pages, 1)

\* --------------------------------------------------------------- file names
PngExt == <<".", "p", "n", "g">>

\* re.sub(r'[^\w\-_.]', '_', node_id)
Sanitize(node_id) ==
    [k \in 1..Len(node_id) |-> IF node_id[k] \in SafeChars THEN node_id[k] ELSE "_"]

\* os.path.join(UPLOAD_FOLDER, "frames")
FrameFolder == <<UPLOAD_FOLDER, "frames">>

\* os.path.join(frame_folder, session_id)
SessionFolder(session_id) == Append(FrameFolder, session_id)

\* os.path.join(session_folder, f"{safe_node_id}.png")
ImagePath(session_id, node_id) ==
    [folder |-> SessionFolder(session_id), name |-> Sanitize(node_id) \o PngExt]

\* ------------------------------------------------------------------ state
Threads == {"w1", "w2"}

VARIABLES
    pc,        \* per thread: where its process_figma call stands
    loc,       \* per thread: the locals of process_figma and of its callees
    response,  \* per thread: the HTTP response of its last Process request
    log,       \* per thread: the outbound calls and filesystem writes of the request
    dirs,      \* the folders that exist under UPLOAD_FOLDER
    files,     \* the files that exist: path -> bytes
    served     \* the last response of GET /images/<session_id>/<node_id>

vars == <<pc, loc, response, log, dirs, files, served>>

NoResponse == [status |-> 0]

InitLoc ==
    [request |-> [method |-> "NONE"], session_id |-> "", file_key |-> <<>>, file_data |-> EmptyDict,
     frames |-> <<>>, frame_ids |-> <<>>, image_urls |-> EmptyDict, i |-> 0,
     total_frames |-> 0, idx |-> 0, content |-> <<>>, image_paths |-> EmptyDict]

InitLog == [calls |-> <<>>, made |-> {}, opened |-> {}]

\* line 21: os.makedirs(UPLOAD_FOLDER, exist_ok=True) has run at import
Init ==
    /\ pc = [w \in Threads |-> "idle"]
    /\ loc = [w \in Threads |-> InitLoc]
    /\ response = [w \in Threads |-> NoResponse]
    /\ log = [w \in Threads |-> InitLog]
    /\ dirs = {<<UPLOAD_FOLDER>>}
    /\ files = EmptyDict
    /\ served = [session_id |-> "", node_id |-> <<>>, reply |-> NoResponse]

\* ------------------------------------------------------ the HTTP responses
\* str(e) of the HTTPException that abort(code, description=...) raises
AbortText(code, description) ==
    IF code = 400 THEN "400 Bad Request: " \o description
    ELSE "500 Internal Server Error: " \o description

\* lines 172-174: every Exception raised in the try block, the HTTPException
\* of abort(400) included, is answered by abort(500, description=str(e))
ExceptHandler(msg) == [status |-> 500, description |-> msg]

\* the thread's request ends with an exception carrying msg
Fail(w, msg) ==
    /\ pc' = [pc EXCEPT ![w] = "done"]
    /\ response' = [response EXCEPT ![w] = ExceptHandler(msg)]

\* ------------------------------------------------------ POST /process-figma
\* lines 139-146: the body is read and checked and the file key extracted.
\* A request req carries the field json, the dict that request.get_json()
\* returns, or carries no JSON body (data is then None).
CheckRequest(req) ==
    IF "json" \notin DOMAIN req \/ DOMAIN req.json = {}
          \/ "figma_url" \notin DOMAIN req.json
          \/ "session_id" \notin DOMAIN req.json
    THEN Raise(AbortText(400, "Missing figma_url or session_id"))
    ELSE extract_file_key(req.json["figma_url"])

Receive(w, req) ==
    /\ pc[w] \in {"idle", "done"}
    /\ log' = [log EXCEPT ![w] = InitLog]
    /\ LET r == CheckRequest(req)
       IN  IF r.ok
           THEN /\ pc' = [pc EXCEPT ![w] = "fetch"]
                /\ loc' = [loc EXCEPT ![w] = [InitLoc EXCEPT
                                !.request = req,
                                !.session_id = req.json["session_id"],
                                !.file_key = r.value]]
                /\ response' = [response EXCEPT ![w] = NoResponse]
           ELSE /\ loc' = [loc EXCEPT ![w] = [InitLoc EXCEPT !.request = req]]
                /\ Fail(w, r.error)
    /\ UNCHANGED <<dirs, files, served>>

\* lines 41-52: the outcome of requests.get(f"{BASE_URL}/files/{file_key}")
fetch_figma_file(resp) ==
    IF resp.kind = "neterr" THEN Raise("Network error")
    ELSE IF resp.status = 403 THEN Raise("403 Forbidden")
    ELSE IF resp.status # 200 THEN Raise("Figma API error")
    ELSE Return(resp.json)

\* lines 151-152: every frame gets the key image_url
Annotate(frames, image_urls) ==
    [k \in 1..Len(frames) |->
        DictSet(frames[k], "image_url", Get(image_urls, frames[k].node_id, <<>>))]

\* frame.get('image_url') is truthy
HasUrl(frame) == Truthy(Get(frame, "image_url", None))

\* TotalFrames that counts every frame, with a URL or not
TotalFramesAll(frames) == Len(frames)

\* line 154
TotalFrames(frames) == Cardinality({k \in 1..Len(frames) : HasUrl(frames[k])})

\* Result that lists every frame with a URL, downloaded or not
ResultAllWithUrl(frames, total_frames, image_paths, session_folder) ==
    LET listed == SelectSeq(frames, HasUrl)
    IN  [total_frames |-> total_frames,
         images |-> [k \in 1..Len(listed) |->
                        [name |-> listed[k].name,
                         node_id |-> listed[k].node_id,
                         path |-> Get(image_paths, listed[k].node_id, <<>>)]],
         session_folder |-> session_folder]

\* lines 157-168: the result of a request whose downloads are over
Result(frames, total_frames, image_paths, session_folder) ==
    LET listed == SelectSeq(frames, LAMBDA f : f.node_id \in DOMAIN image_paths)
    IN  [total_frames |-> total_frames,
         images |-> [k \in 1..Len(listed) |->
                        [name |-> listed[k].name,
                         node_id |-> listed[k].node_id,
                         path |-> Get(image_paths, listed[k].node_id, <<>>)]],
         session_folder |-> session_folder]

\* line 170
Success(result) == [status |-> 200, result |-> result]

\* NextFrame that leaves the loop at a frame without image_url: break for continue
NextFrameBreak(frames, k) ==
    IF k > Len(frames) \/ "image_url" \notin DOMAIN frames[k] THEN Len(frames) + 1
    ELSE k

\* lines 111-113: the first frame from position k on that has the key image_url
NextFrame(frames, k) ==
    LET cand == {j \in k..Len(frames) : "image_url" \in DOMAIN frames[j]}
    IN  IF cand = {} THEN Len(frames) + 1
        ELSE CHOOSE j \in cand : \A x \in cand : j <= x

\* The download loop of thread w moves on to the next frame after the one at
\* idx, with locals l; past the last frame download_images returns and
\* process_figma builds its response (lines 133, 157-170).
Advance(w, l) ==
    LET j == NextFrame(l.frames, l.idx + 1)
        l2 == [l EXCEPT !.idx = j, !.content = <<>>]
    IN  /\ loc' = [loc EXCEPT ![w] = l2]
        /\ IF j <= Len(l.frames)
           THEN /\ pc' = [pc EXCEPT ![w] = "get"]
                /\ UNCHANGED response
           ELSE /\ pc' = [pc EXCEPT ![w] = "done"]
                /\ response' = [response EXCEPT ![w] =
                      Success(Result(l.frames, l.total_frames, l.image_paths,
                                     SessionFolder(l.session_id)))]

\* fetch_figma_frame_images has returned image_urls: lines 151-154
AfterRender(l) ==
    LET annotated == Annotate(l.frames, l.image_urls)
    IN  [l EXCEPT !.frames = annotated, !.total_frames = TotalFrames(annotated)]

\* line 59: the loop goes on while i < len(frame_ids); after it
\* download_images is entered
LoopPc(l) == IF l.i < Len(l.frame_ids) THEN "render" ELSE "mkdirs"

LoopLoc(l) == IF l.i < Len(l.frame_ids) THEN l ELSE AfterRender(l)

RenderOrGoOn(w, l) ==
    /\ loc' = [loc EXCEPT ![w] = LoopLoc(l)]
    /\ pc' = [pc EXCEPT ![w] = LoopPc(l)]
    /\ UNCHANGED response

\* lines 148-149, 57: the locals once file_data is there
Extracted(l, file_data) ==
    LET x == extract_frames(file_data)
    IN  [l EXCEPT !.file_data = file_data,
                  !.frames = x.frames,
                  !.frame_ids = x.frame_ids,
                  !.image_urls = EmptyDict,
                  !.i = 0]

\* lines 147-149: the file is fetched and its frames extracted
FetchFile(w, resp) ==
    /\ pc[w] = "fetch"
    /\ log' = [log EXCEPT ![w].calls =
                  Append(@, [api |-> "files", ids |-> <<>>, resp |-> resp])]
    /\ LET r == fetch_figma_file(resp)
       IN  IF r.ok
           THEN RenderOrGoOn(w, Extracted(loc[w], r.value))
           ELSE /\ Fail(w, r.error)
                /\ UNCHANGED loc
    /\ UNCHANGED <<dirs, files, served>>

\* Batch with a slice one id short: frame_ids[i:i + max_ids_per_request - 1]
BatchShort(frame_ids, i) ==
    SubSeq(frame_ids, i + 1, Min(i + max_ids_per_request - 1, Len(frame_ids)))

\* line 60: frame_ids[i:i + max_ids_per_request]
Batch(frame_ids, i) ==
    SubSeq(frame_ids, i + 1, Min(i + max_ids_per_request, Len(frame_ids)))

\* RenderBatch that goes on after a 403 with what it has merged so far
RenderBatchSkip403(image_urls, resp) ==
    IF resp.kind = "neterr" THEN Raise("Network error")
    ELSE IF resp.status = 403 THEN Return(image_urls)
    ELSE IF resp.status # 200 THEN Raise("Figma API error")
    ELSE IF Truthy(Get(resp.json, "err", None)) THEN Raise("Image rendering error")
    ELSE Return(DictUpdate(image_urls, Get(resp.json, "images", EmptyDict)))

\* RenderBatch without the test of the err field
RenderBatchNoErr(image_urls, resp) ==
    IF resp.kind = "neterr" THEN Raise("Network error")
    ELSE IF resp.status = 403 THEN Raise("Access denied: Check token permissions")
    ELSE IF resp.status # 200 THEN Raise("Figma API error")
    ELSE Return(DictUpdate(image_urls, Get(resp.json, "images", EmptyDict)))

\* lines 69-76: what one response of the images endpoint does to image_urls
RenderBatch(image_urls, resp) ==
    IF resp.kind = "neterr" THEN Raise("Network error")
    ELSE IF resp.status = 403 THEN Raise("Access denied: Check token permissions")
    ELSE IF resp.status # 200 THEN Raise("Figma API error")
    ELSE IF Truthy(Get(resp.json, "err", None)) THEN Raise("Image rendering error")
    ELSE Return(DictUpdate(image_urls, Get(resp.json, "images", EmptyDict)))

\* one turn of the loop of fetch_figma_frame_images (lines 59-78)
RenderChunk(w, resp) ==
    /\ pc[w] = "render"
    /\ loc[w].i < Len(loc[w].frame_ids)
    /\ log' = [log EXCEPT ![w].calls =
                  Append(@, [api |-> "images",
                             ids |-> Batch(loc[w].frame_ids, loc[w].i),
                             resp |-> resp])]
    /\ LET r == RenderBatch(loc[w].image_urls, resp)
       IN  IF r.ok
           THEN RenderOrGoOn(w, [loc[w] EXCEPT
                    !.image_urls = r.value,
                    !.i = @ + max_ids_per_request])
           ELSE /\ Fail(w, r.error)
                /\ UNCHANGED loc
    /\ UNCHANGED <<dirs, files, served>>

\* ---------------------------------------------------------- download_images
\* lines 104-109: both folders are made if absent, then the loop is entered
MakeDirs(w) ==
    /\ pc[w] = "mkdirs"
    /\ dirs' = dirs \cup {FrameFolder, SessionFolder(loc[w].session_id)}
    /\ log' = [log EXCEPT ![w].made =
                  @ \cup {FrameFolder, SessionFolder(loc[w].session_id)}]
    /\ Advance(w, [loc[w] EXCEPT !.image_paths = EmptyDict, !.idx = 0])
    /\ UNCHANGED <<files, served>>

\* the frame the loop of thread w is at
Frame(w) == loc[w].frames[loc[w].idx]

\* line 116 with a URL that is '' or None: requests.get raises before anything
\* is sent, and lines 130-131 log the error and go on
SkipNoUrl(w) ==
    /\ pc[w] = "get"
    /\ ~Truthy(Frame(w).image_url)
    /\ Advance(w, loc[w])
    /\ UNCHANGED <<log, dirs, files, served>>

\* lines 116-119: the GET of the rendered image and its outcome
DownloadGet(w, resp) ==
    /\ pc[w] = "get"
    /\ Truthy(Frame(w).image_url)
    /\ log' = [log EXCEPT ![w].calls =
                  Append(@, [api |-> "download", ids |-> <<Frame(w).node_id>>,
                             resp |-> resp])]
    /\ IF resp.kind = "http" /\ resp.status = 200
       THEN /\ loc' = [loc EXCEPT ![w].content = resp.content]
            /\ pc' = [pc EXCEPT ![w] = "open"]
            /\ UNCHANGED response
       ELSE Advance(w, loc[w])
    /\ UNCHANGED <<dirs, files, served>>

\* lines 121-124: open(filename, 'wb') makes the file or truncates it; when
\* it raises, lines 130-131 go on to the next frame
OpenFile(w, ok) ==
    /\ pc[w] = "open"
    /\ LET filename == ImagePath(loc[w].session_id, Frame(w).node_id)
       IN  IF ok
           THEN /\ files' = DictSet(files, filename, <<>>)
                /\ log' = [log EXCEPT ![w].opened = @ \cup {filename}]
                /\ pc' = [pc EXCEPT ![w] = "write"]
                /\ UNCHANGED <<loc, response>>
           ELSE /\ Advance(w, loc[w])
                /\ UNCHANGED <<files, log>>
    /\ UNCHANGED <<dirs, served>>

\* write(2) of data at offset 0 of a file holding old
WriteAt0(old, data) == data \o SubSeq(old, Len(data) + 1, Len(old))

\* lines 125-127: the bytes go to the start of the file, which is closed, and
\* the path is recorded; when the write raises the frame is skipped
WriteFile(w, ok) ==
    /\ pc[w] = "write"
    /\ LET filename == ImagePath(loc[w].session_id, Frame(w).node_id)
       IN  IF ok
           THEN /\ files' = DictSet(files, filename,
                                    WriteAt0(files[filename], loc[w].content))
                /\ Advance(w, [loc[w] EXCEPT !.image_paths =
                                  DictSet(@, Frame(w).node_id, filename)])
           ELSE /\ Advance(w, loc[w])
                /\ UNCHANGED files
    /\ UNCHANGED <<log, dirs, served>>

\* ------------------------------------------- GET /images/<session_id>/<node_id>
\* get_image that looks the file up under the node id as given
get_image_raw(fs, session_id, node_id) ==
    LET image_path == [folder |-> SessionFolder(session_id), name |-> node_id \o PngExt]
    IN  IF image_path \notin DOMAIN fs
        THEN [status |-> 404, body |-> <<>>]
        ELSE [status |-> 200, body |-> fs[image_path]]

get_image(fs, session_id, node_id) ==
    LET image_path == ImagePath(session_id, node_id)
    IN  IF image_path \notin DOMAIN fs
        THEN [status |-> 404, body |-> <<>>]
        ELSE [status |-> 200, body |-> fs[image_path]]

GetImage(session_id, node_id) ==
    /\ served' = [session_id |-> session_id, node_id |-> node_id,
                  reply |-> get_image(files, session_id, node_id)]
    /\ UNCHANGED <<pc, loc, response, log, dirs, files>>

\* ------------------------------------------------------------ the environment
Seqs(S, n) == UNION {[1..k -> S] : k \in 0..n}

Range(q) == {q[k] : k \in 1..Len(q)}

Https == <<"h", "t", "t", "p", "s", ":", "/", "/">>

UrlFile == Https \o LitFigma \o LitFile \o <<"A", "B", "/", "T">>
UrlDesign == Https \o LitFigma \o LitDesign \o <<"A", "B", "?", "m">>
UrlBoard == Https \o LitFigma \o LitBoard \o <<"X", "-", "1">>
UrlNoKey == Https \o LitFigma \o LitFile
UrlOther == Https \o <<"x", ".", "i", "o", "/">> \o LitFile \o <<"A", "B">>

Sessions == {"s1", "s2"}

\* the bodies a client can post
Requests(urls, sessions) ==
    {[method |-> "POST"]}
    \cup {[method |-> "POST", json |-> EmptyDict]}
    \cup {[method |-> "POST", json |-> [figma_url |-> u]] : u \in urls}
    \cup {[method |-> "POST", json |-> [session_id |-> s]] : s \in sessions}
    \cup {[method |-> "POST", json |-> [figma_url |-> u, session_id |-> s]] :
             u \in urls, s \in sessions}

\* node ids as Figma writes them
Id11 == <<"1", ":", "1">>
Id12 == <<"1", ":", "2">>

DigitChar == <<"0", "1", "2", "3", "4", "5", "6", "7", "8", "9">>

\* Figma gives every node of a file its own id: here page:child
PlaceId(p, c) == <<DigitChar[p + 1], ":", DigitChar[c + 1]>>

\* the children a page can hold: a frame with id and name, a frame with
\* neither, and a group (no frame) that holds a nested frame
Shapes == {"frame", "bare", "group"}

Node(shape, p, c) ==
    IF shape = "frame" THEN [type |-> "FRAME", id |-> PlaceId(p, c), name |-> "Hero"]
    ELSE IF shape = "bare" THEN [type |-> "FRAME"]
    ELSE [type |-> "GROUP", id |-> PlaceId(p, c), name |-> "Group",
          children |-> <<[type |-> "FRAME", id |-> <<"9", ":", "9">>, name |-> "Inner"]>>]

Page(children) == [type |-> "CANVAS", name |-> "Page", children |-> children]

Doc(pages) == [name |-> "File", document |-> [type |-> "DOCUMENT", children |-> pages]]

\* a page without the key children
EmptyPage == <<"empty">>

\* the p-th page, of the given shapes
PageOf(shapes, p) ==
    IF shapes = EmptyPage THEN [type |-> "CANVAS", name |-> "Page"]
    ELSE Page([c \in 1..Len(shapes) |-> Node(shapes[c], p, c)])

DocOf(pageShapes) == Doc([p \in 1..Len(pageShapes) |-> PageOf(pageShapes[p], p)])

\* the files given to extract_frames alone: pages with or without children,
\* and bodies without a document or without pages
ExtractDocs ==
    {DocOf(ps) : ps \in Seqs(Seqs(Shapes, MaxChildren) \cup {EmptyPage}, MaxPages)}
    \cup {[name |-> "File"], [name |-> "File", document |-> [type |-> "DOCUMENT"]]}

\* the files of the pipeline: one page of up to MaxFrames children
PipelineDocs == {DocOf(<<c>>) : c \in Seqs(Shapes, MaxFrames)}

FileResponses(docs) ==
    {[kind |-> "http", status |-> 200, json |-> d] : d \in docs}
    \cup {[kind |-> "http", status |-> 403], [kind |-> "http", status |-> 500],
          [kind |-> "neterr"]}

\* the URL the images endpoint gives for a node
Url(id) == <<"u", "/">> \o id

RenderErr == <<"e", "r", "r">>

\* what the images endpoint can map the ids of one request to: a URL for
\* each, null for the first or the last (not rendered), or the first left out
ImageMaps(ids) ==
    LET all == [id \in Range(ids) |-> Url(id)]
    IN  {all,
         [id \in Range(ids) |-> IF id = ids[1] THEN None ELSE Url(id)],
         [id \in Range(ids) |-> IF id = ids[Len(ids)] THEN None ELSE Url(id)],
         [id \in Range(ids) \ {ids[1]} |-> Url(id)]}

RenderFailures ==
    {[kind |-> "http", status |-> 403], [kind |-> "http", status |-> 500],
     [kind |-> "http", status |-> 200, json |-> [err |-> RenderErr]],
     [kind |-> "neterr"]}

RenderResponses(ids) ==
    IF ids = <<>> THEN {} ELSE
    {[kind |-> "http", status |-> 200, json |-> [err |-> None, images |-> m]] :
        m \in ImageMaps(ids)}
    \cup {[kind |-> "http", status |-> 200, json |-> [err |-> None]]}
    \cup RenderFailures

\* image bytes of two lengths
PngA == <<65, 65, 65>>
PngB == <<66, 66>>

DownloadResponses(contents) ==
    {[kind |-> "http", status |-> 200, content |-> c] : c \in contents}
    \cup {[kind |-> "http", status |-> 404], [kind |-> "neterr"]}

\* the node ids a client asks GET /images for
IdAlias == <<"1", "_", "1">>
IdUnknown == <<"9", ":", "9">>

\* ------------------------------------------------------------- the server
\* Two request threads over one filesystem, and GET /images at any time.
\* Both threads post for session s1; GET asks for either session.
PostS1 == [method |-> "POST", json |-> [figma_url |-> UrlFile, session_id |-> "s1"]]

ServerRequests == {[method |-> "POST"], PostS1}

ServerFileResponses ==
    {[kind |-> "http", status |-> 200, json |-> DocOf(<<<<"frame">>>>)],
     [kind |-> "http", status |-> 403]}

ServerRenderResponses(ids) ==
    IF ids = <<>> THEN {} ELSE
    {[kind |-> "http", status |-> 200,
      json |-> [err |-> None, images |-> [id \in Range(ids) |-> Url(id)]]],
     [kind |-> "http", status |-> 200,
      json |-> [err |-> None, images |-> [id \in Range(ids) |-> None]]],
     [kind |-> "http", status |-> 403]}

Render(w) ==
    \E resp \in ServerRenderResponses(Batch(loc[w].frame_ids, loc[w].i)) :
        RenderChunk(w, resp)

Next ==
    \/ \E w \in Threads, req \in ServerRequests : Receive(w, req)
    \/ \E w \in Threads, resp \in ServerFileResponses : FetchFile(w, resp)
    \/ \E w \in Threads : Render(w)
    \/ \E w \in Threads : MakeDirs(w)
    \/ \E w \in Threads : SkipNoUrl(w)
    \/ \E w \in Threads, resp \in DownloadResponses({PngA, PngB}) : DownloadGet(w, resp)
    \/ \E w \in Threads : OpenFile(w, TRUE)
    \/ \E w \in Threads : WriteFile(w, TRUE)
    \/ \E s \in Sessions, n \in {Id11, IdAlias, IdUnknown} : GetImage(s, n)

Spec == Init /\ [][Next]_vars

\* ------------------------------------------------------------ one request
\* One thread takes request after request, with every kind of body, file,
\* render and download outcome, and with opens and writes that can fail.
PipelineRequests == Requests({UrlFile, UrlDesign, UrlBoard, UrlNoKey, UrlOther}, {"s1"})

PipelineRender(w) ==
    \E resp \in RenderResponses(Batch(loc[w].frame_ids, loc[w].i)) :
        RenderChunk(w, resp)

NextPipeline ==
    \/ \E req \in PipelineRequests : Receive("w1", req)
    \/ \E resp \in FileResponses(PipelineDocs) : FetchFile("w1", resp)
    \/ PipelineRender("w1")
    \/ MakeDirs("w1")
    \/ SkipNoUrl("w1")
    \/ \E resp \in DownloadResponses({PngA}) : DownloadGet("w1", resp)
    \/ \E ok \in BOOLEAN : OpenFile("w1", ok)
    \/ \E ok \in BOOLEAN : WriteFile("w1", ok)

SpecPipeline == Init /\ [][NextPipeline]_vars

\* ------------------------------------------------------------ extract_frames
\* The thread has its file key and fetches a file out of ExtractDocs.
InitExtract ==
    /\ pc = [w \in Threads |-> IF w = "w1" THEN "fetch" ELSE "idle"]
    /\ loc = [w \in Threads |->
                IF w = "w1"
                THEN [InitLoc EXCEPT !.request = PostS1, !.session_id = "s1",
                                     !.file_key = <<"A", "B">>]
                ELSE InitLoc]
    /\ response = [w \in Threads |-> NoResponse]
    /\ log = [w \in Threads |-> InitLog]
    /\ dirs = {<<UPLOAD_FOLDER>>}
    /\ files = EmptyDict
    /\ served = [session_id |-> "", node_id |-> <<>>, reply |-> NoResponse]

NextExtract ==
    /\ pc["w1"] = "fetch"
    /\ \E resp \in FileResponses(ExtractDocs) : FetchFile("w1", resp)

SpecExtract == InitExtract /\ [][NextExtract]_vars

\* ------------------------------------------------- fetch_figma_frame_images
RECURSIVE Decimal(_)
Decimal(n) ==
    IF n < 10 THEN <<DigitChar[n + 1]>>
    ELSE Append(Decimal(n \div 10), DigitChar[(n % 10) + 1])

\* a frame as extract_frames records it
FrameOf(id, name) == [name |-> name, node_id |-> id, type |-> "FRAME"]

\* the k-th frame of a long page: "1:k"
NodeId(k) == <<"1", ":">> \o Decimal(k)

LongDoc(n) ==
    Doc(<<Page([k \in 1..n |-> [type |-> "FRAME", id |-> NodeId(k), name |-> "F"]])>>)

\* The thread has fetched a file of n frames, extracted them (a frame and an
\* id for each child of the page, in order) and is about to render them.
InitRender ==
    \E n \in 0..MaxIds :
        LET l == [InitLoc EXCEPT
                    !.request = PostS1,
                    !.session_id = "s1",
                    !.file_key = <<"A", "B">>,
                    !.file_data = LongDoc(n),
                    !.frames = [k \in 1..n |-> FrameOf(NodeId(k), "F")],
                    !.frame_ids = [k \in 1..n |-> NodeId(k)]]
        IN  /\ pc = [w \in Threads |-> IF w = "w1" THEN LoopPc(l) ELSE "idle"]
            /\ loc = [w \in Threads |-> IF w = "w1" THEN LoopLoc(l) ELSE InitLoc]
            /\ response = [w \in Threads |-> NoResponse]
            /\ log = [w \in Threads |-> InitLog]
            /\ dirs = {<<UPLOAD_FOLDER>>}
            /\ files = EmptyDict
            /\ served = [session_id |-> "", node_id |-> <<>>, reply |-> NoResponse]

NextRender == PipelineRender("w1")

SpecRender == InitRender /\ [][NextRender]_vars

\* ----------------------------------------------------------- download_images
\* download_images is entered with a list of frames, each with a URL, with
\* '' or None for a URL, or without the key image_url.
DownloadFrames ==
    {FrameOf(Id11, "Hero"), FrameOf(Id12, "Home"),
     DictSet(FrameOf(Id11, "Hero"), "image_url", Url(Id11)),
     DictSet(FrameOf(Id12, "Home"), "image_url", Url(Id12)),
     DictSet(FrameOf(<<"1", ":", "3">>, "Info"), "image_url", Url(<<"1", ":", "3">>)),
     DictSet(FrameOf(Id12, "Home"), "image_url", <<>>),
     DictSet(FrameOf(<<>>, "Anon"), "image_url", None)}

\* no two frames of a file share a node id
DistinctNodes(fs) ==
    \A j, k \in 1..Len(fs) : j # k => fs[j].node_id # fs[k].node_id

InitDownload ==
    \E fs \in {x \in Seqs(DownloadFrames, MaxFrames + 1) : DistinctNodes(x)} :
        /\ pc = [w \in Threads |-> IF w = "w1" THEN "mkdirs" ELSE "idle"]
        /\ loc = [w \in Threads |->
                    IF w = "w1"
                    THEN [InitLoc EXCEPT !.request = PostS1,
                                         !.session_id = "s1", !.frames = fs,
                                         !.total_frames = TotalFrames(fs)]
                    ELSE InitLoc]
        /\ response = [w \in Threads |-> NoResponse]
        /\ log = [w \in Threads |-> InitLog]
        /\ dirs = {<<UPLOAD_FOLDER>>}
        /\ files = EmptyDict
        /\ served = [session_id |-> "", node_id |-> <<>>, reply |-> NoResponse]

NextDownload ==
    \/ MakeDirs("w1")
    \/ SkipNoUrl("w1")
    \/ \E resp \in DownloadResponses({PngA, PngB}) : DownloadGet("w1", resp)
    \/ \E ok \in BOOLEAN : OpenFile("w1", ok)
    \/ \E ok \in BOOLEAN : WriteFile("w1", ok)

SpecDownload == InitDownload /\ [][NextDownload]_vars

\* =================================================================== claims
\* what the claims speak of
Calls(w) == log[w].calls

\* a call the remote side did not answer with success
FailedCall(c) ==
    \/ c.resp.kind = "neterr"
    \/ c.resp.status # 200
    \/ (c.api = "images" /\ Truthy(Get(c.resp.json, "err", None)))

\* the identifier-to-URL mapping a successful images call returned
Returned(c) == Get(c.resp.json, "images", EmptyDict)

Succeeded(w) == pc[w] = "done" /\ response[w].status = 200

RECURSIVE Flatten(_)
Flatten(qs) == IF qs = <<>> THEN <<>> ELSE Head(qs) \o Flatten(Tail(qs))

\* ---------------------------------------------------------------------- C7
\* the places <<page, child>> of the file's tree, in page-then-child order
Children(file_data, p) ==
    Get(Get(Get(file_data, "document", EmptyDict), "children", <<>>)[p], "children", <<>>)

Places(file_data) ==
    LET pages == Get(Get(file_data, "document", EmptyDict), "children", <<>>)
    IN  UNION {{<<p, c>> : c \in 1..Len(Children(file_data, p))} : p \in 1..Len(pages)}

Before(a, b) == a[1] < b[1] \/ (a[1] = b[1] /\ a[2] <= b[2])

NodeAt(file_data, pl) == Children(file_data, pl[1])[pl[2]]

IsFrameNode(n) == "type" \in DOMAIN n /\ n["type"] = "FRAME"

HasId(n) == "id" \in DOMAIN n /\ n["id"] # <<>>

\* the position of place pl among the places of S
Rank(S, pl) == Cardinality({q \in S : Before(q, pl)})

\* C7: extract_frames returns exactly the children directly under a page
\* whose type is FRAME, in page-then-child order, each with its name (or
\* "Unnamed Frame") and its id (or ''), and frame_ids is the same sequence
\* restricted to the frames that have a non-empty id.
C7_ExtractFrames ==
    \A w \in Threads :
        pc[w] \in {"render", "mkdirs"} =>
            LET fd == loc[w].file_data
                FP == {pl \in Places(fd) : IsFrameNode(NodeAt(fd, pl))}
                IP == {pl \in FP : HasId(NodeAt(fd, pl))}
            IN  /\ Len(loc[w].frames) = Cardinality(FP)
                /\ Len(loc[w].frame_ids) = Cardinality(IP)
                /\ \A pl \in FP :
                      LET f == loc[w].frames[Rank(FP, pl)]
                          n == NodeAt(fd, pl)
                      IN  /\ f.type = "FRAME"
                          /\ f.name = (IF "name" \in DOMAIN n THEN n["name"]
                                       ELSE "Unnamed Frame")
                          /\ f.node_id = (IF "id" \in DOMAIN n THEN n["id"] ELSE <<>>)
                /\ \A pl \in IP :
                      loc[w].frame_ids[Rank(IP, pl)] = NodeAt(fd, pl)["id"]

\* a file of two pages was extracted: a frame without an id is among the
\* frames, and a child that is no frame (with a frame nested in it) was left out
C7_Witness ==
    /\ pc["w1"] = "render"
    /\ Len(Get(loc["w1"].file_data["document"], "children", <<>>)) = 2
    /\ Len(loc["w1"].frames) = 3
    /\ Len(loc["w1"].frame_ids) = 2
    /\ \E pl \in Places(loc["w1"].file_data) :
          ~IsFrameNode(NodeAt(loc["w1"].file_data, pl))

\* ---------------------------------------------------------------------- C3
CeilDiv(n, d) == (n + d - 1) \div d

\* C3: when every request succeeds, fetch_figma_frame_images has issued
\* ceil(n/100) requests in order, every chunk but the last holds 100 ids and
\* the last at most 100, the chunks put end to end are the input list, and
\* the mapping it returns holds every entry of every chunk's mapping and
\* nothing else.
C3_Batches ==
    \A w \in Threads :
        (pc[w] = "mkdirs" /\ \A k \in 1..Len(Calls(w)) : Calls(w)[k].api = "images") =>
            LET ids == loc[w].frame_ids
                cs == Calls(w)
                chunks == [k \in 1..Len(cs) |-> cs[k].ids]
            IN  /\ Len(cs) = CeilDiv(Len(ids), 100)
                /\ \A k \in 1..Len(cs) :
                      /\ Len(chunks[k]) >= 1
                      /\ Len(chunks[k]) <= 100
                      /\ k < Len(cs) => Len(chunks[k]) = 100
                /\ Flatten(chunks) = ids
                /\ DOMAIN loc[w].image_urls = UNION {DOMAIN Returned(cs[k]) : k \in 1..Len(cs)}
                /\ \A k \in 1..Len(cs) : \A id \in DOMAIN Returned(cs[k]) :
                      loc[w].image_urls[id] = Returned(cs[k])[id]

\* 250 ids were rendered in three requests of 100, 100 and 50
C3_Witness ==
    /\ pc["w1"] = "mkdirs"
    /\ Len(loc["w1"].frame_ids) = 250
    /\ Len(Calls("w1")) = 3
    /\ Len(Calls("w1")[3].ids) = 50
    /\ Cardinality(DOMAIN loc["w1"].image_urls) = 250

\* ---------------------------------------------------------------------- C4
\* C4: when a chunk fails (403, another status, an err field, or no answer),
\* whichever its position, no later chunk is requested and the caller gets
\* no mapping: the request ends with an error, no frame was given a URL and
\* nothing was counted.
C4_NoPartialMapping ==
    \A w \in Threads : \A k \in 1..Len(Calls(w)) :
        (Calls(w)[k].api = "images" /\ FailedCall(Calls(w)[k])) =>
            /\ k = Len(Calls(w))
            /\ pc[w] = "done"
            /\ response[w].status = 500
            /\ "result" \notin DOMAIN response[w]
            /\ \A j \in 1..Len(loc[w].frames) : "image_url" \notin DOMAIN loc[w].frames[j]
            /\ loc[w].total_frames = 0

\* the second chunk of three failed after the first had given its mapping
C4_Witness ==
    /\ Len(loc["w1"].frame_ids) > 200
    /\ Len(Calls("w1")) = 2
    /\ ~FailedCall(Calls("w1")[1])
    /\ Calls("w1")[2].resp.kind = "http" /\ Calls("w1")[2].resp.status = 403
    /\ Cardinality(DOMAIN loc["w1"].image_urls) = 100
    /\ pc["w1"] = "done"

\* ---------------------------------------------------------------------- C1
\* the body is absent or lacks figma_url or session_id
MissingFields(req) ==
    \/ "json" \notin DOMAIN req
    \/ "figma_url" \notin DOMAIN req.json
    \/ "session_id" \notin DOMAIN req.json

NothingDone(w) == Calls(w) = <<>> /\ log[w].made = {} /\ log[w].opened = {}

\* C1: a Process request without a body, without figma_url or without
\* session_id is answered with 400, and no remote call and no filesystem
\* write is made for it.
C1_MissingFields400 ==
    \A w \in Threads :
        (pc[w] = "done" /\ MissingFields(loc[w].request)) =>
            /\ response[w].status = 400
            /\ NothingDone(w)

\* ---------------------------------------------------------------------- C2
\* the URLs of the model that hold no file key
InvalidUrls == {UrlNoKey, UrlOther}

\* the message of the exception a failed call raises
FailureMessage(c) ==
    IF c.resp.kind = "neterr" THEN "Network error"
    ELSE IF c.api = "files"
         THEN (IF c.resp.status = 403 THEN "403 Forbidden" ELSE "Figma API error")
    ELSE IF c.resp.status = 403 THEN "Access denied: Check token permissions"
    ELSE IF c.resp.status # 200 THEN "Figma API error"
    ELSE "Image rendering error"

\* C2: when the extraction of the file key, the fetch of the file or a render
\* request fails, nothing runs after it (no further call, so no download,
\* and no folder or file is made or opened) and the request is answered with
\* 500 and the failure's message.
C2_FailureAborts ==
    \A w \in Threads :
        /\ (/\ pc[w] # "idle"
            /\ ~MissingFields(loc[w].request)
            /\ loc[w].request.json["figma_url"] \in InvalidUrls) =>
                /\ pc[w] = "done"
                /\ response[w] = [status |-> 500, description |-> "Invalid Figma URL"]
                /\ NothingDone(w)
        /\ \A k \in 1..Len(Calls(w)) :
              (Calls(w)[k].api \in {"files", "images"} /\ FailedCall(Calls(w)[k])) =>
                  /\ k = Len(Calls(w))
                  /\ pc[w] = "done"
                  /\ response[w] = [status |-> 500,
                                    description |-> FailureMessage(Calls(w)[k])]
                  /\ log[w].made = {}
                  /\ log[w].opened = {}

\* the file was fetched and the render request came back with an err field
C2_Witness ==
    /\ pc["w1"] = "done"
    /\ Len(Calls("w1")) = 2
    /\ ~FailedCall(Calls("w1")[1])
    /\ Calls("w1")[2].api = "images"
    /\ Calls("w1")[2].resp.kind = "http" /\ Calls("w1")[2].resp.status = 200
    /\ FailedCall(Calls("w1")[2])
    /\ response["w1"].status = 500

\* ---------------------------------------------------------------------- C5
Images(w) == response[w].result.images

\* C5: in a successful Process response a frame is listed only if it got a
\* non-empty rendered-image URL and its own download succeeded: the GET for
\* its node returned 200 and the file at its path holds the bytes of that
\* answer; every listed entry carries its (non-empty) local path.
C5_ListedOnlyIfDownloaded ==
    \A w \in Threads :
        Succeeded(w) =>
            \A k \in 1..Len(Images(w)) :
                LET e == Images(w)[k]
                IN  /\ \E j \in 1..Len(loc[w].frames) :
                          /\ loc[w].frames[j].node_id = e.node_id
                          /\ loc[w].frames[j].name = e.name
                          /\ HasUrl(loc[w].frames[j])
                    /\ DOMAIN e.path # {}
                    /\ e.path \in DOMAIN files
                    /\ \E c \in Range(Calls(w)) :
                          /\ c.api = "download"
                          /\ c.ids = <<e.node_id>>
                          /\ ~FailedCall(c)
                          /\ files[e.path] = c.resp.content

\* two frames were rendered, one was downloaded and is listed, the other's
\* download failed and it is not listed
C5_Witness ==
    /\ Succeeded("w1")
    /\ Cardinality({j \in 1..Len(loc["w1"].frames) : HasUrl(loc["w1"].frames[j])}) = 2
    /\ Len(Images("w1")) = 1
    /\ \E c \in Range(Calls("w1")) : c.api = "download" /\ FailedCall(c)

\* --------------------------------------------------------------------- C10
\* the images endpoint gave a non-empty URL for the node
Rendered(w, id) ==
    \E c \in Range(Calls(w)) :
        /\ c.api = "images"
        /\ id \in DOMAIN Returned(c)
        /\ Returned(c)[id] # None
        /\ Returned(c)[id] # <<>>

\* C10: in a successful Process response total_frames is the number of
\* frames that got a non-empty rendered-image URL, whatever the downloads
\* did, and the images list is never longer than that.
C10_TotalFrames ==
    \A w \in Threads :
        Succeeded(w) =>
            /\ response[w].result.total_frames =
                  Cardinality({j \in 1..Len(loc[w].frames) :
                                  Rendered(w, loc[w].frames[j].node_id)})
            /\ Len(Images(w)) <= response[w].result.total_frames

\* two frames were rendered and only one of them was downloaded
C10_Witness ==
    /\ Succeeded("w1")
    /\ Len(loc["w1"].frames) = 2
    /\ response["w1"].result.total_frames = 2
    /\ Len(Images("w1")) = 1

\* ---------------------------------------------------------------------- C9
\* the download calls of the request, in the order they were made
Downloads(w) == SelectSeq(Calls(w), LAMBDA c : c.api = "download")

\* how many members of S are at or before k
RankIn(S, k) == Cardinality({j \in S : j <= k})

Listed(w, n) ==
    Succeeded(w) /\ \E k \in 1..Len(Images(w)) : Images(w)[k].node_id = n

\* the bytes the request of thread w downloaded for node n
Downloaded(w, n) ==
    LET c == CHOOSE d \in Range(Calls(w)) :
                 d.api = "download" /\ d.ids = <<n>> /\ ~FailedCall(d)
    IN  c.resp.content

C8_LastWriterWins ==
    \A v, w \in Threads :
        (/\ v # w
         /\ Listed(v, Id11)
         /\ Listed(w, Id11)
         /\ loc[v].session_id = loc[w].session_id) =>
            files[ImagePath(loc[v].session_id, Id11)]
                \in {Downloaded(v, Id11), Downloaded(w, Id11)}

====
